---- MODULE Spec2Model ----
(***************************************************************************)
(* Model of the bouncing-ball game scene Inertia_Demo (src/unnamed/part_000)*)
(* and of the fixed-step clock, class Simulation, that the copy of the     *)
(* scene in src/examples/collisions-demo.js extends.                       *)
(*                                                                         *)
(* Units.  Coordinates (x, y, z, the bounds and the wall spans) are        *)
(* integers counting millionths of a scene unit: 12.8 is 12800000.  The    *)
(* literal 0.4999999999999996 of the level-0 right walls is 499999, the     *)
(* integer next below 500000: a ball at y = 0.5 is above it, as in the     *)
(* code; both walls that use it use the same literal.                      *)
(* bounce_angle counts milliseconds of frame time accumulated on top of    *)
(* 0.5*PI: the code adds 0.5 * dt * 1.2 * PI per frame, i.e. 0.0006*PI per *)
(* millisecond, so the angle is 0.5*PI + 0.0006*PI*bounce_angle and the    *)
(* arc end 1.1*PI is 1000.                                                 *)
(* A colour is an object; the code compares colours with ==, that is by    *)
(* identity.  Colours are therefore numbered: 0..3 are the four objects of *)
(* the constructor (white, black, red, blue) and every colour made by      *)
(* color(Math.random(), ...) gets a number >= 4 that no live object has.   *)
(***************************************************************************)
EXTENDS Integers, Sequences, FiniteSets, TLC

VARIABLES game_started, game_over, goRight, bounced, score, x, y, z,
          bounce_angle, count, changeDirection, colors, ballcolor,
          rightWalls, leftWalls, scoreElement,
          moves,     \* position updates since construction / restart (bounds the exploration)
          hit,       \* history: what the side resolver did in the latest display call
          time_accumulator, time_scale, t, steps_taken,   \* the fields of Simulation
          calls,       \* history: number of simulate calls so far (bounds the exploration)
          last_steps,  \* history: fixed steps executed by the latest simulate call
          nominal,     \* history: sum of the frame durations passed to simulate, in ms
          total,       \* history: running sum of the amounts added to the accumulator
          run          \* history: what kind of frames simulate has been given so far

gamevars == <<game_started, game_over, goRight, bounced, score, x, y, z,
              bounce_angle, count, changeDirection, colors, ballcolor,
              rightWalls, leftWalls, scoreElement, moves, hit>>

simvars == <<time_accumulator, time_scale, t, steps_taken,
             calls, last_steps, nominal, total, run>>

vars == <<game_started, game_over, goRight, bounced, score, x, y, z,
          bounce_angle, count, changeDirection, colors, ballcolor,
          rightWalls, leftWalls, scoreElement, moves, hit,
          time_accumulator, time_scale, t, steps_taken,
          calls, last_steps, nominal, total, run>>

(***************************************************************************)
(* Bounds of the exploration.                                              *)
(***************************************************************************)
MaxMoves == 2
MaxCalls == 4

\* frame delta times in milliseconds (program_state.animation_delta_time)
DtSet == {300, 800}

\* frame durations in milliseconds handed to simulate(frame_time)
FrameSet == {-60, 0, 20, 30, 100, 300}

\* time_scale is 5^k after k net presses of "Speed up time"; the model holds k
ScaleSet == {-1, 0, 1}

(***************************************************************************)
(* Program constants.                                                      *)
(***************************************************************************)
rightbound == 12800000
leftbound == -12900000
upperbound == 14700000
bottom == -14000000
BallRadius == 1000000
ArcEnd == 1000
FallDy == 200000
FallDx == 50000
StartX == 0
StartY == 3000000
StartZ == 6000000
White == 0
Black == 1
Red == 2
Blue == 3
FirstRandomColor == 4

\* 0.05 * Math.cos(bounce_angle)
cosX(a) ==
  CASE a = 300 -> -26791 [] a = 600 -> -45241 [] a = 800 -> -49901
    [] a = 900 -> -49606 [] a = 1100 -> -43815 [] a = 1200 -> -38526
    [] a = 1400 -> -24088 [] a = 1600 -> -6267 [] a = 1700 -> 3140

\* 0.15 * Math.sin(bounce_angle)
sinY(a) ==
  CASE a = 300 -> 126649 [] a = 600 -> 63867 [] a = 800 -> 9419
    [] a = 900 -> -18800 [] a = 1100 -> -72263 [] a = 1200 -> -95614
    [] a = 1400 -> -131446 [] a = 1600 -> -148817 [] a = 1700 -> -149704

\* 0.015 * Math.sin(bounce_angle)
sinY2(a) ==
  CASE a = 300 -> 12665 [] a = 600 -> 6387 [] a = 800 -> 942
    [] a = 900 -> -1880 [] a = 1100 -> -7226 [] a = 1200 -> -9561
    [] a = 1400 -> -13145 [] a = 1600 -> -14882 [] a = 1700 -> -14970

(***************************************************************************)
(* Walls.                                                                  *)
(***************************************************************************)
\* new Wall(x, y, z, scale, color, up, low); placement and scale only feed the renderer
Wall(color, up, low) == [wallcolor |-> color, up |-> up, low |-> low, built |-> TRUE]

\* new Wall(): every field is undefined
EmptyWall == [wallcolor |-> -1, up |-> 0, low |-> 0, built |-> FALSE]

FourEmptyWalls == [i \in 0..3 |-> EmptyWall]

\* the colours of the constructor
InitialColors == [i \in 0..3 |-> CASE i = 0 -> White [] i = 1 -> Black [] i = 2 -> Red [] i = 3 -> Blue]

\* variant: at level 1 the third right wall starts below the second one's lower bound
RightLayoutWithSeam(cnt, cols) ==
  CASE cnt = 0 -> << Wall(cols[0], 13500000, 499999),
                     Wall(cols[1], 499999, -13700000) >>
    [] cnt = 1 -> << Wall(cols[0], 13500000, 6700000),
                     Wall(cols[1], 6700000, 500000),
                     Wall(cols[2], 400000, -13700000) >>
    [] cnt = 2 -> << Wall(cols[2], 13500000, 8700000),
                     Wall(cols[1], 8700000, 500000),
                     Wall(cols[0], 500000, -9900000),
                     Wall(cols[3], -9900000, -13700000) >>
    [] OTHER -> << >>

\* the right walls generateWalls builds at level cnt, top to bottom
RightLayout(cnt, cols) ==
  CASE cnt = 0 -> << Wall(cols[0], 13500000, 499999),
                     Wall(cols[1], 499999, -13700000) >>
    [] cnt = 1 -> << Wall(cols[0], 13500000, 6700000),
                     Wall(cols[1], 6700000, 500000),
                     Wall(cols[2], 500000, -13700000) >>
    [] cnt = 2 -> << Wall(cols[2], 13500000, 8700000),
                     Wall(cols[1], 8700000, 500000),
                     Wall(cols[0], 500000, -9900000),
                     Wall(cols[3], -9900000, -13700000) >>
    [] OTHER -> << >>

\* the left walls generateWalls builds at level cnt, top to bottom
LeftLayout(cnt, cols) ==
  CASE cnt = 0 -> << Wall(cols[1], 13500000, 5100000),
                     Wall(cols[0], 5100000, -13700000) >>
    [] cnt = 1 -> << Wall(cols[2], 13500000, 4500000),
                     Wall(cols[0], 4500000, -7700000),
                     Wall(cols[1], -7700000, -13700000) >>
    [] cnt = 2 -> << Wall(cols[1], 13500000, 10700000),
                     Wall(cols[2], 10700000, -1700000),
                     Wall(cols[3], -1700000, -6700000),
                     Wall(cols[0], -6700000, -13700000) >>
    [] OTHER -> << >>

\* this.rightWalls[i] = ... for the walls of the level; the other entries stay
StoreWalls(old, new) == [i \in 0..3 |-> IF i < Len(new) THEN new[i + 1] ELSE old[i]]

\* variant: walls that exist are kept, not rebuilt
generateWallsKeepsBuilt(L) ==
  IF L.rightWalls[0].built THEN L
  ELSE [L EXCEPT !.rightWalls = StoreWalls(L.rightWalls, RightLayout(L.count, L.colors)),
                 !.leftWalls = StoreWalls(L.leftWalls, LeftLayout(L.count, L.colors))]

\* A layout is the part of the scene the wall generator reads and writes.
\* generateWalls: rebuild the walls of the current level from the palette.
generateWalls(L) ==
  [L EXCEPT !.rightWalls = StoreWalls(L.rightWalls, RightLayout(L.count, L.colors)),
            !.leftWalls = StoreWalls(L.leftWalls, LeftLayout(L.count, L.colors))]


(***************************************************************************)
(* Layout regeneration (the if (this.changeDirection) block of display).   *)
(***************************************************************************)
\* the colour objects some field still refers to
LiveColors(L) ==
  {L.colors[i] : i \in 0..3} \cup {L.ballcolor}
    \cup {L.rightWalls[i].wallcolor : i \in 0..3}
    \cup {L.leftWalls[i].wallcolor : i \in 0..3}

\* color(Math.random(), Math.random(), Math.random(), 1.0), n times: n new objects
RECURSIVE FreshColors(_, _)
FreshColors(n, used) ==
  IF n = 0 THEN << >>
  ELSE LET c == CHOOSE k \in FirstRandomColor..(FirstRandomColor + Cardinality(used)) :
                    /\ k \notin used
                    /\ \A j \in FirstRandomColor..(k - 1) : j \in used
       IN << c >> \o FreshColors(n - 1, used \cup {c})

\* variant: one draw, without the loop that rejects the current level
NewLevelsOneDraw(prev_c) == 0..2

\* while (this.count == prev_c) this.count = Math.floor(Math.random() * 3)
NewLevels(prev_c) == (0..2) \ {prev_c}

\* variant: the index is drawn over the whole palette
BallIndexesWholePalette(cnt) == 0..3

\* Math.floor(Math.random() * (this.count + 2))
BallIndexes(cnt) == 0..(cnt + 1)

\* new level lvl, new palette entries 0..lvl+1, ball colour colors[index]
Regenerate(L, lvl, index) ==
  LET fresh == FreshColors(lvl + 2, LiveColors(L))
      cols == [i \in 0..3 |-> IF i < lvl + 2 THEN fresh[i + 1] ELSE L.colors[i]]
  IN [L EXCEPT !.count = lvl, !.colors = cols, !.ballcolor = cols[index]]

(***************************************************************************)
(* The side resolver of display (the same chain is written four times:     *)
(* bounce/fall phase, right/left wall).                                    *)
(***************************************************************************)
\* this.y > wall.low && this.y < wall.up   (a comparison with undefined is false)
InSpan(w, yy) == w.built /\ yy > w.low /\ yy < w.up

\* this.ballcolor == wall.wallcolor
SameColor(c, w) == w.built /\ c = w.wallcolor

\* variant: the chain of level 2 goes from wall 1 straight to wall 3
FoundWallSkipsThird(walls, cnt, yy) ==
  IF InSpan(walls[0], yy) THEN 0
  ELSE IF InSpan(walls[1], yy) THEN 1
  ELSE IF cnt = 1 THEN (IF InSpan(walls[2], yy) THEN 2 ELSE -1)
  ELSE IF cnt = 2 THEN (IF InSpan(walls[3], yy) THEN 3 ELSE -1)
  ELSE -1

\* index of the wall the if / else-if chain selects, -1 when it selects none
FoundWall(walls, cnt, yy) ==
  IF InSpan(walls[0], yy) THEN 0
  ELSE IF InSpan(walls[1], yy) THEN 1
  ELSE IF cnt = 1 THEN (IF InSpan(walls[2], yy) THEN 2 ELSE -1)
  ELSE IF cnt = 2 THEN (IF InSpan(walls[2], yy) THEN 2
                        ELSE IF InSpan(walls[3], yy) THEN 3 ELSE -1)
  ELSE -1

\* variant: the right wall is tested whatever the ball's direction
RightContactAnyDirection(g, xx) == xx + BallRadius >= rightbound

\* this.goRight && this.x + 1 >= this.rightbound
RightContact(g, xx) == g /\ xx + BallRadius >= rightbound

\* !this.goRight && this.x - 1 <= this.leftbound
LeftContact(g, xx) == ~g /\ xx - BallRadius <= leftbound

\* what the resolver does at position (xx, yy)
SideResolver(g, xx, yy, cnt, ball, rWalls, lWalls) ==
  LET side == IF RightContact(g, xx) THEN "right"
              ELSE IF LeftContact(g, xx) THEN "left" ELSE "none"
      walls == IF side = "right" THEN rWalls ELSE lWalls
      i == IF side = "none" THEN -1 ELSE FoundWall(walls, cnt, yy)
  IN [side |-> side, seg |-> i,
      kind |-> IF side = "none" THEN "none"
               ELSE IF i = -1 THEN "seam"
               ELSE IF SameColor(ball, walls[i]) THEN "match" ELSE "mismatch"]

NoContact == [side |-> "none", seg |-> -1, kind |-> "none"]

\* history value before any display call
NoHit == [side |-> "none", seg |-> -1, kind |-> "none", bounds |-> FALSE]

\* variant: a wall of another colour bounces the ball back instead of ending the game
ApplyOutcomeBouncesOff(kind, S) ==
  IF kind = "match"
    THEN [S EXCEPT !.goRight = ~S.goRight, !.changeDirection = TRUE,
                   !.score = S.score + 1, !.scoreElement = S.score + 1]
  ELSE IF kind = "mismatch" THEN [S EXCEPT !.goRight = ~S.goRight]
  ELSE S

\* variant: the score is counted for every wall found, outside the colour test
ApplyOutcomeScoresAnyWall(kind, S) ==
  IF kind = "match"
    THEN [S EXCEPT !.goRight = ~S.goRight, !.changeDirection = TRUE,
                   !.score = S.score + 1, !.scoreElement = S.score + 1]
  ELSE IF kind = "mismatch"
    THEN [S EXCEPT !.game_over = TRUE, !.score = S.score + 1, !.scoreElement = S.score + 1]
  ELSE S

\* variant: a contact that finds no wall ends the game
ApplyOutcomeSeamEndsGame(kind, S) ==
  IF kind = "match"
    THEN [S EXCEPT !.goRight = ~S.goRight, !.changeDirection = TRUE,
                   !.score = S.score + 1, !.scoreElement = S.score + 1]
  ELSE IF kind = "mismatch" \/ kind = "seam" THEN [S EXCEPT !.game_over = TRUE]
  ELSE S

\* variant: a contact that finds no wall turns the ball round
ApplyOutcomeSeamBounces(kind, S) ==
  IF kind = "match"
    THEN [S EXCEPT !.goRight = ~S.goRight, !.changeDirection = TRUE,
                   !.score = S.score + 1, !.scoreElement = S.score + 1]
  ELSE IF kind = "mismatch" THEN [S EXCEPT !.game_over = TRUE]
  ELSE IF kind = "seam" THEN [S EXCEPT !.goRight = ~S.goRight]
  ELSE S

\* variant: a wall of another colour also requests a new layout
ApplyOutcomeMismatchRedraws(kind, S) ==
  IF kind = "match"
    THEN [S EXCEPT !.goRight = ~S.goRight, !.changeDirection = TRUE,
                   !.score = S.score + 1, !.scoreElement = S.score + 1]
  ELSE IF kind = "mismatch"
    THEN [S EXCEPT !.game_over = TRUE, !.changeDirection = TRUE]
  ELSE S

\* variant: a match counts the score without writing the score display
ApplyOutcomeSilentScore(kind, S) ==
  IF kind = "match"
    THEN [S EXCEPT !.goRight = ~S.goRight, !.changeDirection = TRUE,
                   !.score = S.score + 1]
  ELSE IF kind = "mismatch" THEN [S EXCEPT !.game_over = TRUE]
  ELSE S

\* the body of one link of the chain: flip, request a layout change and score, or end the game
ApplyOutcome(kind, S) ==
  IF kind = "match"
    THEN [S EXCEPT !.goRight = ~S.goRight, !.changeDirection = TRUE,
                   !.score = S.score + 1, !.scoreElement = S.score + 1]
  ELSE IF kind = "mismatch" THEN [S EXCEPT !.game_over = TRUE]
  ELSE S

\* variant: only the upper bound is checked
OutOfBoundsTopOnly(yy) == yy + BallRadius >= upperbound

\* variant: the upper bound lies two units lower, inside the span of the top walls
OutOfBoundsInsideWalls(yy) == yy + BallRadius >= upperbound - 2000000 \/ yy <= bottom

\* this.y + 1 >= this.upperbound || this.y <= this.bottom
OutOfBounds(yy) == yy + BallRadius >= upperbound \/ yy <= bottom

\* if (!this.bounced && (!this.game_over))
BouncePhase == ~bounced /\ ~game_over

\* variant: the fall branch does not test game_over
FallPhaseIgnoresGameOver == ~BouncePhase /\ ~OutOfBounds(y) /\ game_started

\* variant: the fall branch is never entered, the ball hovers between arcs
FallPhaseHovers == ~BouncePhase /\ ~OutOfBounds(y) /\ game_started /\ ~game_over /\ ~bounced

\* else if (out of bounds) ... else if (this.game_started && (!this.game_over))
FallPhase == ~BouncePhase /\ ~OutOfBounds(y) /\ game_started /\ ~game_over

(***************************************************************************)
(* display(context, program_state): one rendered frame.  dt is the frame   *)
(* time in milliseconds; lvl and index are the values the random draws of  *)
(* the regeneration produce (they are used only when a layout change was   *)
(* requested).                                                             *)
(***************************************************************************)
\* this.bounce_angle += 0.5 * dt * 1.2 * Math.PI
AdvancedAngle(dt) == bounce_angle + dt

\* x when the checks of this display call run: after the primary update of the bounce phase
PrimaryX(dt) ==
  IF BouncePhase
    THEN (IF goRight THEN x - cosX(AdvancedAngle(dt)) ELSE x + cosX(AdvancedAngle(dt)))
    ELSE x

\* y when the checks of this display call run: after the primary update of the bounce phase
PrimaryY(dt) == IF BouncePhase THEN y + sinY(AdvancedAngle(dt)) ELSE y

\* variant: the fall-phase move uses the direction held before the resolution
DisplayResultMovesBeforeResolving(dt, lvl, index) ==
  LET bp == BouncePhase
      fp == FallPhase
      a == AdvancedAngle(dt)
      x1 == PrimaryX(dt)
      y1 == PrimaryY(dt)
      \* top / bottom check: of the updated y when bouncing, of y otherwise
      S0 == [goRight |-> goRight, changeDirection |-> changeDirection,
             score |-> score, scoreElement |-> scoreElement,
             game_over |-> game_over \/ OutOfBounds(y1)]
      r == IF bp \/ fp
             THEN SideResolver(goRight, x1, y1, count, ballcolor, rightWalls, leftWalls)
             ELSE NoContact
      S1 == ApplyOutcome(r.kind, S0)
      \* second y update of the bounce phase / the move of the fall phase
      x2 == IF fp THEN (IF goRight THEN x + FallDx ELSE x - FallDx) ELSE x1
      y2 == IF bp THEN y1 + sinY2(a) ELSE IF fp THEN y - FallDy ELSE y
      arcEnds == bp /\ a >= ArcEnd
      L0 == [count |-> count, colors |-> colors, ballcolor |-> ballcolor,
             rightWalls |-> rightWalls, leftWalls |-> leftWalls]
      L1 == IF S1.changeDirection THEN Regenerate(L0, lvl, index) ELSE L0
      L2 == generateWalls(L1)
  IN [x |-> x2, y |-> y2,
      goRight |-> S1.goRight, score |-> S1.score, scoreElement |-> S1.scoreElement,
      game_over |-> S1.game_over,
      requested |-> S1.changeDirection,
      bounced |-> IF arcEnds THEN TRUE ELSE bounced,
      bounce_angle |-> IF bp THEN (IF arcEnds THEN 0 ELSE a) ELSE bounce_angle,
      count |-> L2.count, colors |-> L2.colors, ballcolor |-> L2.ballcolor,
      rightWalls |-> L2.rightWalls, leftWalls |-> L2.leftWalls,
      moved |-> bp \/ fp,
      hit |-> [side |-> r.side, seg |-> r.seg, kind |-> r.kind, bounds |-> OutOfBounds(y1)]]

DisplayResult(dt, lvl, index) ==
  LET bp == BouncePhase
      fp == FallPhase
      a == AdvancedAngle(dt)
      x1 == PrimaryX(dt)
      y1 == PrimaryY(dt)
      \* top / bottom check: of the updated y when bouncing, of y otherwise
      S0 == [goRight |-> goRight, changeDirection |-> changeDirection,
             score |-> score, scoreElement |-> scoreElement,
             game_over |-> game_over \/ OutOfBounds(y1)]
      r == IF bp \/ fp
             THEN SideResolver(goRight, x1, y1, count, ballcolor, rightWalls, leftWalls)
             ELSE NoContact
      S1 == ApplyOutcome(r.kind, S0)
      \* second y update of the bounce phase / the move of the fall phase
      x2 == IF fp THEN (IF S1.goRight THEN x + FallDx ELSE x - FallDx) ELSE x1
      y2 == IF bp THEN y1 + sinY2(a) ELSE IF fp THEN y - FallDy ELSE y
      arcEnds == bp /\ a >= ArcEnd
      L0 == [count |-> count, colors |-> colors, ballcolor |-> ballcolor,
             rightWalls |-> rightWalls, leftWalls |-> leftWalls]
      L1 == IF S1.changeDirection THEN Regenerate(L0, lvl, index) ELSE L0
      L2 == generateWalls(L1)
  IN [x |-> x2, y |-> y2,
      goRight |-> S1.goRight, score |-> S1.score, scoreElement |-> S1.scoreElement,
      game_over |-> S1.game_over,
      requested |-> S1.changeDirection,
      bounced |-> IF arcEnds THEN TRUE ELSE bounced,
      bounce_angle |-> IF bp THEN (IF arcEnds THEN 0 ELSE a) ELSE bounce_angle,
      count |-> L2.count, colors |-> L2.colors, ballcolor |-> L2.ballcolor,
      rightWalls |-> L2.rightWalls, leftWalls |-> L2.leftWalls,
      moved |-> bp \/ fp,
      hit |-> [side |-> r.side, seg |-> r.seg, kind |-> r.kind, bounds |-> OutOfBounds(y1)]]

\* the random draws one display call makes: none unless a layout change was requested
RandomDraws(prev_c, requested) ==
  IF requested
    THEN {<<lvl, index>> \in (0..2) \X (0..3) : lvl \in NewLevels(prev_c) /\ index \in BallIndexes(lvl)}
    ELSE {<<prev_c, 0>>}

DisplayCall(dt) ==
  /\ \E draw \in RandomDraws(count, DisplayResult(dt, count, 0).requested) :
       LET n == DisplayResult(dt, draw[1], draw[2])
       IN /\ x' = n.x
          /\ y' = n.y
          /\ goRight' = n.goRight
          /\ score' = n.score
          /\ scoreElement' = n.scoreElement
          /\ game_over' = n.game_over
          /\ bounced' = n.bounced
          /\ bounce_angle' = n.bounce_angle
          /\ count' = n.count
          /\ colors' = n.colors
          /\ ballcolor' = n.ballcolor
          /\ rightWalls' = n.rightWalls
          /\ leftWalls' = n.leftWalls
          /\ changeDirection' = FALSE      \* reset by the regeneration and by generateWalls
          /\ moves' = IF n.moved THEN moves + 1 ELSE moves
          /\ hit' = n.hit
          /\ UNCHANGED <<game_started, z>>
  /\ UNCHANGED simvars      \* display never calls simulate

\* A display call of the bounded game: a call that moves the ball uses one of
\* the MaxMoves moves.
Display(dt) ==
  /\ (BouncePhase \/ FallPhase) => moves < MaxMoves
  /\ DisplayCall(dt)

(***************************************************************************)
(* The buttons of make_control_panel.                                      *)
(***************************************************************************)
\* variant: start game also revives a game that is over
StartGameClearsGameOver ==
  /\ game_started' = TRUE
  /\ game_over' = FALSE
  /\ UNCHANGED <<goRight, bounced, score, x, y, z, bounce_angle, count,
                 changeDirection, colors, ballcolor, rightWalls, leftWalls,
                 scoreElement, moves, hit>>
  /\ UNCHANGED simvars

StartGame ==
  /\ game_started' = TRUE
  /\ UNCHANGED <<game_over, goRight, bounced, score, x, y, z, bounce_angle, count,
                 changeDirection, colors, ballcolor, rightWalls, leftWalls,
                 scoreElement, moves, hit>>
  /\ UNCHANGED simvars

\* variant: the button also starts a bounce arc
MakeGameOverBounces ==
  /\ game_over' = TRUE
  /\ bounced' = FALSE
  /\ UNCHANGED <<game_started, goRight, score, x, y, z, bounce_angle, count,
                 changeDirection, colors, ballcolor, rightWalls, leftWalls,
                 scoreElement, moves, hit>>
  /\ UNCHANGED simvars

MakeGameOver ==
  /\ game_over' = TRUE
  /\ UNCHANGED <<game_started, goRight, bounced, score, x, y, z, bounce_angle, count,
                 changeDirection, colors, ballcolor, rightWalls, leftWalls,
                 scoreElement, moves, hit>>
  /\ UNCHANGED simvars

\* variant: the bounce press does not start the game
BounceWithoutStart ==
  /\ bounced' = FALSE
  /\ UNCHANGED <<game_started, game_over, goRight, score, x, y, z, bounce_angle, count,
                 changeDirection, colors, ballcolor, rightWalls, leftWalls,
                 scoreElement, moves, hit>>
  /\ UNCHANGED simvars

\* variant: the press starts the arc afresh
BounceRestartsArc ==
  /\ game_started' = TRUE
  /\ bounced' = FALSE
  /\ bounce_angle' = 0
  /\ UNCHANGED <<game_over, goRight, score, x, y, z, count,
                 changeDirection, colors, ballcolor, rightWalls, leftWalls,
                 scoreElement, moves, hit>>
  /\ UNCHANGED simvars

Bounce ==
  /\ game_started' = TRUE
  /\ bounced' = FALSE
  /\ UNCHANGED <<game_over, goRight, score, x, y, z, bounce_angle, count,
                 changeDirection, colors, ballcolor, rightWalls, leftWalls,
                 scoreElement, moves, hit>>
  /\ UNCHANGED simvars

\* variant: the level is not reset
RestartKeepsLevel ==
  /\ game_started' = FALSE
  /\ game_over' = FALSE
  /\ goRight' = TRUE
  /\ bounced' = TRUE
  /\ score' = 0
  /\ x' = StartX
  /\ y' = StartY
  /\ z' = StartZ
  /\ scoreElement' = 0
  /\ changeDirection' = FALSE
  /\ rightWalls' = FourEmptyWalls
  /\ leftWalls' = FourEmptyWalls
  /\ ballcolor' = colors[0]
  /\ moves' = 0
  /\ hit' = NoHit
  /\ UNCHANGED <<bounce_angle, colors, count>>
  /\ UNCHANGED simvars

\* The callback ends with this.display(), called without arguments: its first
\* statement reads context.scratchpad and throws, so that call changes nothing.
Restart ==
  /\ game_started' = FALSE
  /\ game_over' = FALSE
  /\ goRight' = TRUE
  /\ bounced' = TRUE
  /\ score' = 0
  /\ x' = StartX
  /\ y' = StartY
  /\ z' = StartZ
  /\ scoreElement' = 0
  /\ count' = 0
  /\ changeDirection' = FALSE
  /\ rightWalls' = FourEmptyWalls
  /\ leftWalls' = FourEmptyWalls
  /\ ballcolor' = colors[0]
  /\ moves' = 0
  /\ hit' = NoHit
  /\ UNCHANGED <<bounce_angle, colors>>
  /\ UNCHANGED simvars

(***************************************************************************)
(* The fixed-step clock: class Simulation (src/examples/collisions-demo.js).*)
(*                                                                         *)
(* Its fields are IEEE-754 doubles and the loop compares them exactly, so  *)
(* the model keeps the double arithmetic.  A double is a record            *)
(* [neg, hi, lo] standing for (-1)^neg * (hi * 2^30 + lo) * 2^-60 seconds. *)
(* Every double that occurs is a multiple of 2^-60: the frame times and dt *)
(* are, and a sum of such doubles is rounded to a unit in the last place   *)
(* that is 2^-60 or coarser (sums below 2^-8 are exact).  Zero is always    *)
(* written with neg = FALSE.                                               *)
(***************************************************************************)
Base == 2^30

Double(neg, hi, lo) == [neg |-> neg, hi |-> hi, lo |-> lo]

Zero == Double(FALSE, 0, 0)

\* unit in the last place, in units of 2^-60, of a double of magnitude hi * 2^30 + lo
Ulp(hi) ==
  IF hi >= 2^30 THEN 256
  ELSE IF hi >= 2^29 THEN 128
  ELSE IF hi >= 2^28 THEN 64
  ELSE IF hi >= 2^27 THEN 32
  ELSE IF hi >= 2^26 THEN 16
  ELSE IF hi >= 2^25 THEN 8
  ELSE IF hi >= 2^24 THEN 4
  ELSE IF hi >= 2^23 THEN 2
  ELSE 1

MagLess(a, b) == a.hi < b.hi \/ (a.hi = b.hi /\ a.lo < b.lo)

MagAdd(a, b) ==
  [hi |-> a.hi + b.hi + ((a.lo + b.lo) \div Base), lo |-> (a.lo + b.lo) % Base]

\* for MagLess(b, a) or equal magnitudes
MagSub(a, b) ==
  IF a.lo >= b.lo THEN [hi |-> a.hi - b.hi, lo |-> a.lo - b.lo]
  ELSE [hi |-> a.hi - b.hi - 1, lo |-> a.lo + Base - b.lo]

\* the sum of two doubles as a real number
ExactAdd(a, b) ==
  IF a.neg = b.neg
  THEN LET m == MagAdd(a, b) IN Double(a.neg, m.hi, m.lo)
  ELSE IF MagLess(a, b)
       THEN LET m == MagSub(b, a) IN Double(b.neg, m.hi, m.lo)
       ELSE LET m == MagSub(a, b)
            IN Double(a.neg /\ (m.hi # 0 \/ m.lo # 0), m.hi, m.lo)

\* round to nearest double, ties to even
RoundDouble(a) ==
  LET u == Ulp(a.hi)
      r == a.lo % u
      q == a.lo \div u
      up == r * 2 > u \/ (r * 2 = u /\ q % 2 = 1)
      lo2 == a.lo - r + (IF up THEN u ELSE 0)
  IN IF lo2 = Base THEN Double(a.neg, a.hi + 1, 0) ELSE Double(a.neg, a.hi, lo2)

\* a + b and -a in double arithmetic
FAdd(a, b) == RoundDouble(ExactAdd(a, b))

Neg(a) == Double(~a.neg /\ (a.hi # 0 \/ a.lo # 0), a.hi, a.lo)

\* a < b
Less(a, b) ==
  IF a.neg # b.neg THEN a.neg
  ELSE IF a.neg THEN MagLess(b, a) ELSE MagLess(a, b)

\* Math.min, Math.sign
Min(a, b) == IF Less(b, a) THEN b ELSE a

Sign(a) == IF a.neg THEN -1 ELSE IF a = Zero THEN 0 ELSE 1

\* sgn * a for sgn in {-1, 0, 1}
Signed(sgn, a) == IF sgn = 0 THEN Zero ELSE IF sgn < 0 THEN Neg(a) ELSE a

\* the doubles 1 / 20 and 0.1
sim_dt == Double(FALSE, 53687091, 214748368)

CatchUpLimit == Double(FALSE, 107374182, 429496736)

\* frame_time = this.time_scale * frame_time: the double product of 5^k and
\* the double nearest to ms / 1000
ScaledFrame(k, ms) ==
  CASE k = -1 /\ ms = -60 -> Double(TRUE, 12884901, 953482740)      \* -0.012
    [] k = -1 /\ ms = 0   -> Zero
    [] k = -1 /\ ms = 20  -> Double(FALSE, 4294967, 317827580)      \* 0.004
    [] k = -1 /\ ms = 30  -> Double(FALSE, 6442450, 1013612282)     \* 0.006
    [] k = -1 /\ ms = 100 -> Double(FALSE, 21474836, 515396080)     \* 0.020000000000000004
    [] k = -1 /\ ms = 300 -> Double(FALSE, 64424509, 472446400)     \* 0.06
    [] k = 0 /\ ms = -60  -> Double(TRUE, 64424509, 472446400)      \* -0.06
    [] k = 0 /\ ms = 0    -> Zero
    [] k = 0 /\ ms = 20   -> Double(FALSE, 21474836, 515396076)     \* 0.02
    [] k = 0 /\ ms = 30   -> Double(FALSE, 32212254, 773094112)     \* 0.03
    [] k = 0 /\ ms = 100  -> Double(FALSE, 107374182, 429496736)    \* 0.1
    [] k = 0 /\ ms = 300  -> Double(FALSE, 322122547, 214748352)    \* 0.3
    [] k = 1 /\ ms = -60  -> Double(TRUE, 322122547, 214748352)     \* -0.3
    [] k = 1 /\ ms = 0    -> Zero
    [] k = 1 /\ ms = 20   -> Double(FALSE, 107374182, 429496736)    \* 0.1
    [] k = 1 /\ ms = 30   -> Double(FALSE, 161061273, 644245088)    \* 0.15
    [] k = 1 /\ ms = 100  -> Double(FALSE, 536870912, 0)            \* 0.5
    [] k = 1 /\ ms = 300  -> Double(FALSE, 1610612736, 0)           \* 1.5

\* variant: the frame time is added unclamped
ContributionUnclamped(k, ms) == ScaledFrame(k, ms)

\* Math.min(frame_time, 0.1), the amount one call adds to the accumulator
Contribution(k, ms) == Min(ScaledFrame(k, ms), CatchUpLimit)

\* the loop condition Math.abs(this.time_accumulator) >= this.dt
Behind(acc) == ~MagLess(acc, sim_dt)

\* what one step adds to this.t: Math.sign(frame_time) * this.dt
TimeStep(sgn) == Signed(sgn, sim_dt)

\* Whether the call this.update_state(this.dt) returns.  Simulation's
\* update_state is the statement throw "Override this"; the override of
\* Inertia_Demo begins with new Body(...), and no Body is imported or declared
\* in the file, so it ends in a ReferenceError.  In both classes the call
\* leaves by an exception.
UpdateStateReturns == FALSE

\* The while loop of simulate on S = [time_accumulator, t, steps_taken].  The
\* first statement of the body is the call of update_state; its exception
\* leaves simulate before the three assignments that follow it, so the fields
\* keep the values they had when the loop was entered: the accumulator with
\* the amount of this frame added, t and steps_taken untouched.
RECURSIVE CatchUp(_, _)
\* variant: the step is counted before update_state is called
CatchUpCountsFirst(S, sgn) ==
  IF Behind(S.time_accumulator)
  THEN [S EXCEPT !.steps_taken = @ + 1]
  ELSE S

CatchUp(S, sgn) ==
  IF Behind(S.time_accumulator)
  THEN IF UpdateStateReturns
       THEN CatchUp([time_accumulator |-> FAdd(S.time_accumulator, Neg(Signed(sgn, sim_dt))),
                     t |-> FAdd(S.t, TimeStep(sgn)),
                     steps_taken |-> S.steps_taken + 1], sgn)
       ELSE S
  ELSE S

\* simulate(frame_time), up to its return or to the exception of update_state;
\* the bodies list is empty, so advance and blend_state have nothing to act on
Simulate(ms) ==
  /\ calls < MaxCalls
  /\ LET frame_time == ScaledFrame(time_scale, ms)
         S == CatchUp([time_accumulator |-> FAdd(time_accumulator, Contribution(time_scale, ms)),
                       t |-> t,
                       steps_taken |-> steps_taken], Sign(frame_time))
     IN /\ time_accumulator' = S.time_accumulator
        /\ t' = S.t
        /\ steps_taken' = S.steps_taken
        /\ last_steps' = S.steps_taken - steps_taken
        /\ total' = FAdd(total, Contribution(time_scale, ms))
        /\ run' = [nonneg |-> run.nonneg /\ ms >= 0,
                   positive |-> run.positive /\ ms > 0,
                   unit |-> run.unit /\ time_scale = 0 /\ ms >= 0 /\ ms <= 100]
  /\ nominal' = nominal + ms
  /\ calls' = calls + 1
  /\ UNCHANGED time_scale
  /\ UNCHANGED gamevars

\* "Speed up time": this.time_scale *= 5
SpeedUp ==
  /\ time_scale + 1 \in ScaleSet
  /\ time_scale' = time_scale + 1
  /\ UNCHANGED <<time_accumulator, t, steps_taken, calls, last_steps, nominal, total, run>>
  /\ UNCHANGED gamevars

\* "Slow down time": this.time_scale /= 5
SlowDown ==
  /\ time_scale - 1 \in ScaleSet
  /\ time_scale' = time_scale - 1
  /\ UNCHANGED <<time_accumulator, t, steps_taken, calls, last_steps, nominal, total, run>>
  /\ UNCHANGED gamevars

\* the fields after the constructor of Simulation
SimInit ==
  /\ time_accumulator = Zero
  /\ time_scale = 0
  /\ t = Zero
  /\ steps_taken = 0
  /\ calls = 0
  /\ last_steps = 0
  /\ nominal = 0
  /\ total = Zero
  /\ run = [nonneg |-> TRUE, positive |-> TRUE, unit |-> TRUE]

NextSim ==
  \/ \E ms \in FrameSet : Simulate(ms)
  \/ SpeedUp
  \/ SlowDown

(***************************************************************************)
(* The scene after its constructor.                                        *)
(***************************************************************************)
Init ==
  /\ game_started = FALSE
  /\ game_over = FALSE
  /\ goRight = TRUE
  /\ bounced = TRUE
  /\ score = 0
  /\ x = StartX
  /\ y = StartY
  /\ z = StartZ
  /\ scoreElement = 0
  /\ bounce_angle = 0
  /\ count = 0
  /\ changeDirection = FALSE
  /\ colors = InitialColors
  /\ ballcolor = InitialColors[0]
  /\ rightWalls = FourEmptyWalls
  /\ leftWalls = FourEmptyWalls
  /\ moves = 0
  /\ hit = NoHit
  /\ SimInit

Next ==
  \/ \E dt \in DtSet : Display(dt)
  \/ StartGame
  \/ MakeGameOver
  \/ Bounce
  \/ Restart

Spec == Init /\ [][Next]_vars

(***************************************************************************)
(* The scene in the middle of a game.  The layout part of a mid-game state *)
(* is computed by the program's own regeneration from the constructor's    *)
(* layout; the ball is near the wall it moves to, at one of the heights    *)
(* MidY, falling, about to bounce or in an arc.  The frame times are free  *)
(* inputs of display, so the player can steer the ball to these places.    *)
(***************************************************************************)
\* the layout after the first display call
FirstLayout ==
  generateWalls([count |-> 0, colors |-> InitialColors, ballcolor |-> InitialColors[0],
                 rightWalls |-> FourEmptyWalls, leftWalls |-> FourEmptyWalls])

\* the layout after matched collisions that drew the levels hist (the last one drew ball colour index)
RECURSIVE LayoutAfter(_, _)
LayoutAfter(hist, index) ==
  IF hist = << >> THEN FirstLayout
  ELSE generateWalls(Regenerate(LayoutAfter(SubSeq(hist, 1, Len(hist) - 1), 0),
                                hist[Len(hist)], index))

MidHistories == { << >>, << 1 >>, << 2 >>, << 2, 1 >>, << 1, 2 >>, << 2, 1, 0 >> }

MidGaps == {0, 50000}

MidY == { 13600000, 12000000, 6700000, 3000000, 500000, -1000000, -5000000,
          -12000000, -13800000, -13950000 }

\* <<bounced, bounce_angle>>
MidPhases == { << TRUE, 0 >>, << FALSE, 0 >>, << FALSE, 300 >> }

InitMid ==
  \E h \in MidHistories, gap \in MidGaps, ys \in MidY, ph \in MidPhases :
    \E index \in (IF h = << >> THEN {0} ELSE BallIndexes(h[Len(h)])) :
      LET L == LayoutAfter(h, index)
          right == Len(h) % 2 = 0
      IN /\ game_started = TRUE
         /\ game_over = FALSE
         /\ goRight = right
         /\ bounced = ph[1]
         /\ bounce_angle = ph[2]
         /\ score = Len(h)
         /\ scoreElement = Len(h)
         /\ x = IF right THEN rightbound - BallRadius - gap ELSE leftbound + BallRadius + gap
         /\ y = ys
         /\ z = StartZ
         /\ count = L.count
         /\ changeDirection = FALSE
         /\ colors = L.colors
         /\ ballcolor = L.ballcolor
         /\ rightWalls = L.rightWalls
         /\ leftWalls = L.leftWalls
         /\ moves = 0
         /\ hit = NoHit
         /\ SimInit

SpecMid == InitMid /\ [][Next]_vars

\* the clock alone, from the constructed scene
SpecSim == Init /\ [][NextSim]_vars

(***************************************************************************)
(* The game under its render loop.  The scene's display is called once    *)
(* per animation frame for as long as the page is shown, so display calls *)
(* are weakly fair; button presses are not.  A bounce arc that has begun  *)
(* is never cut short by the move budget: the budget limits the falling   *)
(* frames and the number of arcs the player starts.                       *)
(***************************************************************************)
DisplayLive(dt) ==
  /\ FallPhase => moves < MaxMoves
  /\ DisplayCall(dt)

BounceLive ==
  /\ moves < MaxMoves
  /\ Bounce

NextLive ==
  \/ \E dt \in DtSet : DisplayLive(dt)
  \/ StartGame
  \/ MakeGameOver
  \/ BounceLive
  \/ Restart

SpecLive ==
  /\ Init
  /\ [][NextLive]_vars
  /\ WF_vars(\E dt \in DtSet : DisplayLive(dt))

(***************************************************************************)
(* Properties.                                                             *)
(***************************************************************************)
\* the walls of the side the ball moves to
FacingWalls == IF goRight THEN rightWalls ELSE leftWalls

\* the ball touches the side it moves to in this display call
SideContact(dt) ==
  \/ goRight /\ PrimaryX(dt) + BallRadius >= rightbound
  \/ ~goRight /\ PrimaryX(dt) - BallRadius <= leftbound

\* the active segments of the facing side whose span holds the ball, by colour
SegmentsAt(dt, sameColour) ==
  { i \in 0..(count + 1) :
      /\ FacingWalls[i].built
      /\ FacingWalls[i].low < PrimaryY(dt)
      /\ PrimaryY(dt) < FacingWalls[i].up
      /\ (FacingWalls[i].wallcolor = ballcolor) = sameColour }

\* C1: a side contact, in the bouncing or falling phase of a game that is not
\* over, inside the span of an active segment of the ball's colour reverses
\* the direction, adds exactly 1 to the score, gets the layout changed and
\* does not end the game.
C1_MatchedCollision ==
  [][\A dt \in DtSet :
       (/\ Display(dt)
        /\ BouncePhase \/ FallPhase
        /\ SideContact(dt)
        /\ SegmentsAt(dt, TRUE) # {})
       => /\ goRight' = ~goRight
          /\ score' = score + 1
          /\ count' # count
          /\ game_over' = FALSE]_vars

C1_Witness ==
  /\ hit.kind = "match" /\ hit.side = "left" /\ hit.seg = 2
  /\ count # 2 /\ goRight /\ ~game_over

\* C2: under the same contact, inside the span of an active segment of another
\* colour, the display call ends with the game over and with the score and
\* the direction unchanged.
C2_MismatchedCollision ==
  [][\A dt \in DtSet :
       (/\ Display(dt)
        /\ BouncePhase \/ FallPhase
        /\ SideContact(dt)
        /\ SegmentsAt(dt, FALSE) # {})
       => /\ game_over' = TRUE
          /\ score' = score
          /\ goRight' = goRight]_vars

C2_Witness ==
  /\ hit.kind = "mismatch" /\ hit.side = "right" /\ game_over
  /\ goRight /\ score = 0

\* C3: a display call of a game that is not over in which y (after the primary
\* update when bouncing) has y + 1 >= upperbound or y <= bottom returns with
\* the game over, whatever x, the direction and the walls are.
C3_TopBottomGameOver ==
  [][\A dt \in DtSet :
       (/\ Display(dt)
        /\ ~game_over
        /\ \/ PrimaryY(dt) + BallRadius >= upperbound
           \/ PrimaryY(dt) <= bottom)
       => game_over' = TRUE]_vars

C3_Witness == hit.bounds /\ game_over /\ y <= bottom /\ hit.kind = "none"

\* C4: the score never decreases except by restart, which sets it to 0, and
\* every other change is made by a display call, is an increase of exactly 1
\* and comes with exactly one matched side collision in that call.
C4_ScoreMonotone ==
  [][/\ score' < score => (Restart /\ score' = 0)
     /\ score' > score =>
          \E dt \in DtSet :
            /\ Display(dt)
            /\ score' = score + 1
            /\ SideContact(dt)
            /\ Cardinality(SegmentsAt(dt, TRUE)) = 1]_vars

C4_Witness == hit.kind = "match" /\ hit.side = "right" /\ score = 1 /\ scoreElement = 1

\* C5: while the game is over, no display call and no press of start game,
\* bounce the ball or make game over changes x, y, the score, the direction,
\* the level or the ball's colour, and the game stays over; only restart does.
C5_TerminalStability ==
  [][(game_over /\ ~Restart)
       => /\ x' = x /\ y' = y /\ score' = score /\ goRight' = goRight
          /\ count' = count /\ ballcolor' = ballcolor
          /\ game_over' = TRUE]_vars

C5_Witness ==
  /\ game_over /\ ~bounced /\ bounce_angle = 0 /\ hit = NoHit
  /\ moves > 0 /\ score > 0

\* C6: every regeneration of the layout (the palette is replaced) picks a level
\* in {0, 1, 2} that differs from the level before it.
C6_LevelNonRepetition ==
  [][colors' # colors => (count' \in 0..2 /\ count' # count)]_vars

C6_Witness == hit.kind = "match" /\ count = 2 /\ score = 1 /\ colors[3] >= FirstRandomColor

\* C7: the level+2 walls generateWalls wrote on each side are non-empty spans,
\* each wall's low is the up of the wall below it, and the outer bounds are
\* the same on both sides and at every level.
C7_LayoutContiguity ==
  rightWalls[0].built =>
    \A walls \in {rightWalls, leftWalls} :
      /\ \A i \in 0..(count + 1) : walls[i].built /\ walls[i].low < walls[i].up
      /\ \A i \in 0..count : walls[i].low = walls[i + 1].up
      /\ walls[0].up = 13500000
      /\ walls[count + 1].low = -13700000

C7_Witness == hit.kind = "match" /\ hit.side = "right" /\ count = 1 /\ score = 3

\* C8 (as claimed): whenever the ball touches a side at a height that is within
\* the vertical bounds, the span of some active segment of that side holds it.
C8_LayoutCoverage ==
  [][\A dt \in DtSet :
       (/\ Display(dt)
        /\ BouncePhase \/ FallPhase
        /\ SideContact(dt)
        /\ bottom < PrimaryY(dt)
        /\ PrimaryY(dt) + BallRadius < upperbound)
       => \E i \in 0..(count + 1) : InSpan(FacingWalls[i], PrimaryY(dt))]_vars

\* C9: once display has built the walls, the ball's colour is one of the first
\* count+2 palette entries and exactly one active segment of each side has it.
C9_BallColourWinnable ==
  rightWalls[0].built =>
    /\ \E i \in 0..(count + 1) : ballcolor = colors[i]
    /\ \A walls \in {rightWalls, leftWalls} :
         Cardinality({ i \in 0..(count + 1) : walls[i].wallcolor = ballcolor }) = 1

C9_Witness == hit.kind = "match" /\ count = 1 /\ ballcolor = colors[2] /\ score = 2

\* the values the constructor gives the fields restart is to reset
ConstructedValues ==
  /\ game_started = FALSE /\ game_over = FALSE /\ goRight = TRUE /\ bounced = TRUE
  /\ score = 0 /\ x = 0 /\ y = 3000000 /\ z = 6000000
  /\ count = 0 /\ changeDirection = FALSE

\* C10: restart, pressed in any state, leaves game_started, game_over, goRight,
\* bounced, score, (x, y, z), count and changeDirection at the constructor's values.
C10_RestartToIdle == [][Restart => ConstructedValues']_vars

C10_Witness ==
  /\ ~rightWalls[0].built /\ ~game_started /\ colors[2] >= FirstRandomColor
  /\ ConstructedValues

\* C11: restart, pressed in any state (the middle of a bounce arc included),
\* leaves bounce_angle at the constructor's value 0.5*PI, written 0 here.
C11_RestartResetsAngle == [][Restart => bounce_angle' = 0]_vars

\* C12: restart, pressed in any state (after a regeneration included), leaves the
\* ball white and the two palette entries of the level-0 layout white and black.
C12_RestartResetsColours ==
  [][Restart => (ballcolor' = White /\ colors'[0] = White /\ colors'[1] = Black)]_vars

\* k * a for a natural k: as a real number, and rounded to a double
RECURSIVE ExactTimes(_, _)
ExactTimes(k, a) == IF k = 0 THEN Zero ELSE ExactAdd(ExactTimes(k - 1, a), a)

FMul(k, a) == RoundDouble(ExactTimes(k, a))

\* k-fold sum a + d + ... + d in double arithmetic
RECURSIVE Repeat(_, _, _)
Repeat(a, d, k) == IF k = 0 THEN a ELSE FAdd(Repeat(a, d, k - 1), d)

\* C13: with time_scale 1 and frame durations between 0 and 0.1 s that sum to
\* T, the steps executed so far number floor(T / dt), dt being 1/20 s.
C13_StepCount == run.unit => steps_taken = (nominal * 20) \div 1000

\* C14: after any simulate calls with non-negative frame durations the
\* accumulator is at least 0 and below dt, so alpha = accumulator / dt is in [0, 1).
C14_BlendFactorRange ==
  run.nonneg => ~time_accumulator.neg /\ MagLess(time_accumulator, sim_dt)

\* C15: whatever the frame duration and the time scale, a simulate call adds at
\* most 0.1 s to the accumulator and, started with the accumulator in [0, dt),
\* executes at most 2 steps.
C15_AnyFrameTwoSteps ==
  [][\A ms \in FrameSet :
       (Simulate(ms) /\ ~time_accumulator.neg /\ MagLess(time_accumulator, sim_dt))
       => /\ ~Less(CatchUpLimit, Contribution(time_scale, ms))
          /\ last_steps' <= 2]_vars

\* a first call with frame time 0.3 s at time scale 5: 1.5 s come in, 0.1 s is added
C15_Witness ==
  /\ calls = 1 /\ nominal = 300 /\ time_scale = 1
  /\ time_accumulator = CatchUpLimit /\ last_steps = 0

\* C16: every step a simulate call executes adds sign(frame_time) * dt to t,
\* subtracts the same amount from the accumulator and adds 1 to steps_taken;
\* so after calls with positive frame durations t = steps_taken * dt and
\* t + time_accumulator is the sum of the amounts min(time_scale * frame_time, 0.1)
\* of the calls.
C16_StepBookkeeping ==
  [][\A ms \in FrameSet :
       Simulate(ms)
       => LET step == Signed(Sign(ScaledFrame(time_scale, ms)), sim_dt)
              a == FAdd(time_accumulator, Contribution(time_scale, ms))
              k == steps_taken' - steps_taken
          IN /\ k >= 0
             /\ t' = Repeat(t, step, k)
             /\ time_accumulator' = Repeat(a, Neg(step), k)
             /\ run'.positive => /\ t' = FMul(steps_taken', sim_dt)
                                 /\ FAdd(t', time_accumulator') = total']_vars

\* a first call with frame time 0.1 s: the loop is entered and left by the
\* exception, with the frame's amount in the accumulator and no step counted
C16_Witness ==
  /\ run.positive /\ calls = 1 /\ nominal = 100 /\ time_scale = 0
  /\ time_accumulator = CatchUpLimit /\ Behind(time_accumulator)
  /\ t = Zero /\ steps_taken = 0 /\ total = CatchUpLimit

\* C17: in a display call of the bouncing phase the angle advances by one
\* fixed step dt = 1/20 s (50 ms) for each step the clock executes in that frame.
C17_BallDrivenByStepper ==
  [][\A dt \in DtSet :
       (Display(dt) /\ BouncePhase)
       => AdvancedAngle(dt) - bounce_angle = ((steps_taken' - steps_taken) * 1000) \div 20]_vars

\* C18: while game_started is false, bounced is true, the ball is at (0, 3, 6)
\* and a display call leaves x, y, score, goRight and count unchanged.
C18_IdleNoMotion ==
  [][~game_started
     => /\ bounced /\ x = StartX /\ y = StartY /\ z = StartZ
        /\ \A dt \in DtSet : Display(dt) => UNCHANGED <<x, y, score, goRight, count>>]_vars

C18_Witness ==
  /\ ~game_started /\ rightWalls[0].built /\ bounced
  /\ x = StartX /\ y = StartY /\ z = StartZ /\ score = 0

\* C19: bounced changes from true to false only in a press of bounce the ball.
C19_BounceNeedsTrigger == [][(bounced /\ ~bounced') => Bounce]_vars

C19_Witness == ~bounced /\ game_started /\ moves = 2 /\ bounce_angle = 0

\* C20 as stated: game_over changes from false to true only in a display call
\* that finds a mismatched wall or the ball out of the vertical bounds, and only
\* when the game has been started.
C20_OnlyFromResolver ==
  [][(~game_over /\ game_over')
     => /\ game_started
        /\ \E dt \in DtSet : Display(dt) /\ (hit'.kind = "mismatch" \/ hit'.bounds)]_vars

\* C20: game_over changes from false to true only in a press of make game over
\* (possible in any state, before the start included) or in a display call of
\* a started game that finds a mismatched wall or the ball out of the vertical bounds.
C20_GameOverCauses ==
  [][(~game_over /\ game_over')
     => \/ MakeGameOver
        \/ /\ game_started
           /\ \E dt \in DtSet : Display(dt) /\ (hit'.kind = "mismatch" \/ hit'.bounds)]_vars

C20_Witness == game_over /\ ~game_started /\ hit = NoHit /\ ~rightWalls[0].built

\* C21: game_started changes from true to false, and game_over from true to
\* false, only in a press of restart: no display call and no other button
\* does it.
C21_OneDirectional ==
  [][((game_started /\ ~game_started') \/ (game_over /\ ~game_over')) => Restart]_vars

C21_Witness ==
  /\ game_started /\ game_over /\ hit.kind = "mismatch" /\ hit.side = "left"
  /\ moves = 2 /\ score = 3

\* C22: the first frame of the first bounce arc after construction or restart
\* moves the ball to the left: x decreases.
C22_FirstBounceLeft ==
  [][\A dt \in DtSet :
       (Display(dt) /\ BouncePhase /\ score = 0 /\ x = StartX /\ moves = 0)
       => x' < x]_vars

\* C23: within one game the number of wall segments per side, count + 2, never
\* decreases in a display call, in particular not at a matched collision.
C23_DifficultyGrows ==
  [][\A dt \in DtSet : Display(dt) => count' >= count]_vars

\* the walls generateWalls builds on the side the ball moves to, for the
\* current level and palette
FacingLayout == IF goRight THEN RightLayout(count, colors) ELSE LeftLayout(count, colors)

\* C24: at a side contact the resolver selects no segment or one with index
\* 0..count+1, and each of these count+2 segments of the contacted side is the
\* one generateWalls builds for the current level: no segment of an earlier
\* level and no empty placeholder decides.
C24_SegmentsOfLevel ==
  [][\A dt \in DtSet :
       (Display(dt) /\ (BouncePhase \/ FallPhase) /\ SideContact(dt))
       => /\ hit'.seg \in -1..(count + 1)
          /\ Len(FacingLayout) = count + 2
          /\ \A i \in 0..(count + 1) : FacingWalls[i] = FacingLayout[i + 1]]_vars

C24_Witness ==
  /\ count = 0 /\ rightWalls[3].built /\ leftWalls[2].built
  /\ hit.side = "left" /\ hit.seg = 1 /\ hit.kind = "mismatch"

\* C25: at a side contact the resolver selects the active segment of the
\* contacted side with low <= y < up; a ball whose y equals a segment's low
\* bound is resolved against that segment.
C25_HalfOpenSpan ==
  [][\A dt \in DtSet : \A i \in 0..3 :
       (/\ Display(dt)
        /\ BouncePhase \/ FallPhase
        /\ SideContact(dt)
        /\ i <= count + 1
        /\ FacingWalls[i].built
        /\ FacingWalls[i].low <= PrimaryY(dt)
        /\ PrimaryY(dt) < FacingWalls[i].up)
       => hit'.seg = i]_vars

\* C26: a side contact at a height inside no active segment's span leaves the
\* score, the direction, the level, the palette and the ball's colour as they
\* were and sets game_over only by the top/bottom check; the ball moves on
\* past the boundary.
C26_NoSegmentNoChange ==
  [][\A dt \in DtSet :
       (/\ Display(dt)
        /\ BouncePhase \/ FallPhase
        /\ SideContact(dt)
        /\ SegmentsAt(dt, TRUE) = {}
        /\ SegmentsAt(dt, FALSE) = {})
       => /\ score' = score /\ goRight' = goRight
          /\ count' = count /\ colors' = colors /\ ballcolor' = ballcolor
          /\ game_over' = (BouncePhase /\ OutOfBounds(PrimaryY(dt)))
          /\ x' = (IF BouncePhase THEN PrimaryX(dt)
                   ELSE IF goRight THEN x + FallDx ELSE x - FallDx)]_vars

C26_Witness ==
  /\ hit.kind = "seam" /\ hit.side = "right" /\ ~game_over /\ goRight /\ bounced
  /\ x + BallRadius > rightbound /\ moves = 2

\* C27: when a display call that moved the ball returns with the game not
\* over, the position it leaves is inside the vertical bounds and is not a
\* side contact inside the span of an active segment.
C27_CheckedAfterUpdate ==
  [][\A dt \in DtSet :
       (Display(dt) /\ (BouncePhase \/ FallPhase) /\ ~game_over')
       => /\ bottom < y'
          /\ y' + BallRadius < upperbound
          /\ ~ \E i \in 0..(count' + 1) :
                 /\ RightContact(goRight', x') \/ LeftContact(goRight', x')
                 /\ InSpan((IF goRight' THEN rightWalls' ELSE leftWalls')[i], y')]_vars

\* C28: the display call that sets game_over leaves x and y as they were when
\* game_over was set, that is as the checks of that call saw them.
C28_NoMoveAfterGameOver ==
  [][\A dt \in DtSet :
       (Display(dt) /\ ~game_over /\ game_over')
       => x' = PrimaryX(dt) /\ y' = PrimaryY(dt)]_vars

\* C29: a display call in the falling phase (started, not over, not bouncing,
\* inside the vertical bounds) lowers y by 0.2 and moves x by 0.05 in the
\* direction that holds after the call's collision resolution.
C29_FallingStep ==
  [][\A dt \in DtSet :
       (Display(dt) /\ FallPhase)
       => /\ y' = y - FallDy
          /\ x' = (IF goRight' THEN x + FallDx ELSE x - FallDx)]_vars

C29_Witness ==
  /\ hit.kind = "match" /\ hit.side = "right" /\ bounced /\ ~goRight /\ moves = 1
  /\ x = rightbound - BallRadius - FallDx

\* C30: under the render loop every bounce arc ends: a state in the bouncing
\* phase with the game not over is followed, after finitely many display
\* calls, by game over or by bounced = true with bounce_angle back at 0.5*PI.
C30_ArcEnds == BouncePhase ~> (game_over \/ (bounced /\ bounce_angle = 0))

\* the same with the arcs a restart abandons set aside
ArcEndsUnlessRestarted ==
  BouncePhase ~> (game_over \/ (bounced /\ bounce_angle = 0) \/ ~game_started)

\* a display call of the bouncing phase ends the arc exactly when the angle it
\* advanced reaches 1.1*PI, and then puts the angle back to 0.5*PI
ArcEndsAtThreshold ==
  [][\A dt \in DtSet :
       (DisplayLive(dt) /\ BouncePhase)
       => /\ bounced' = (AdvancedAngle(dt) >= ArcEnd)
          /\ bounce_angle' = (IF bounced' THEN 0 ELSE AdvancedAngle(dt))]_vars

\* C31: a display call that resolves no matched side collision, and the start
\* game, make game over and bounce the ball buttons, leave the level count,
\* the palette and the ball's colour unchanged; changeDirection is false when
\* a display call returns.
C31_LevelChangesOnMatch ==
  [][/\ \A dt \in DtSet :
          Display(dt) => /\ ~changeDirection'
                         /\ hit'.kind # "match" =>
                              UNCHANGED <<count, colors, ballcolor>>
     /\ (StartGame \/ MakeGameOver \/ Bounce) => UNCHANGED <<count, colors, ballcolor>>]_vars

C31_Witness ==
  /\ hit.kind = "mismatch" /\ hit.side = "right" /\ count = 2 /\ game_over
  /\ ~changeDirection /\ moves = 1

\* C32: between any two calls the number shown by the score display is the
\* current score: after construction, after every increment and after restart.
C32_ScoreInSync == scoreElement = score

C32_Witness ==
  /\ hit.kind = "match" /\ hit.side = "left" /\ score = 2 /\ scoreElement = 2
  /\ goRight /\ ~game_over

\* C33: within one game the matched collisions alternate between the walls,
\* starting at the right one: the ball heads right exactly when the score is
\* even, a display call counts at most one match, and a match is resolved at
\* the right wall when the score before it is even and at the left wall when
\* it is odd, so a ball still at the wall of its last match does not score
\* there again.
C33_MatchesAlternate ==
  [][/\ goRight <=> score % 2 = 0
     /\ goRight' <=> score' % 2 = 0
     /\ \A dt \in DtSet :
          Display(dt) =>
            /\ score' \in {score, score + 1}
            /\ score' = score + 1 <=> hit'.kind = "match"
            /\ hit'.kind = "match" =>
                 /\ hit'.side = (IF score % 2 = 0 THEN "right" ELSE "left")
                 /\ goRight' = ~goRight
            /\ hit'.side = "right" => goRight
            /\ hit'.side = "left" => ~goRight]_vars

C33_Witness ==
  /\ score = 1 /\ ~goRight /\ moves = 2 /\ ~game_over
  /\ x + BallRadius >= rightbound /\ hit.kind = "none"

\* C34: no display call both raises the score and newly sets game_over; a
\* bounce-phase call whose updated y fails the top/bottom check finds that y
\* inside no wall's span, so its side resolver neither scores nor flips.
C34_ScoreExcludesGameOver ==
  [][\A dt \in DtSet :
       Display(dt) =>
         /\ ~(score' > score /\ ~game_over /\ game_over')
         /\ (BouncePhase /\ OutOfBounds(PrimaryY(dt))) =>
              /\ hit'.kind \in {"none", "seam"}
              /\ score' = score /\ goRight' = goRight]_vars

C34_Witness ==
  /\ hit.bounds /\ hit.kind = "seam" /\ hit.side = "right" /\ game_over
  /\ ~bounced /\ y + BallRadius >= upperbound /\ moves = 1

\* C35: a press of bounce the ball during an arc changes nothing; a press
\* while the game is over changes neither the position, the score nor
\* game_over, and no later display call of that finished game moves the ball
\* or changes the score.
C35_BounceDuringArc ==
  [][/\ (Bounce /\ BouncePhase) => UNCHANGED vars
     /\ (Bounce /\ game_over) => UNCHANGED <<x, y, score, game_over, bounce_angle>>
     /\ \A dt \in DtSet :
          (Display(dt) /\ game_over /\ ~bounced) =>
             UNCHANGED <<x, y, score, game_over, bounced, bounce_angle>>]_vars

C35_Witness ==
  /\ game_over /\ ~bounced /\ game_started /\ bounce_angle = 300
  /\ rightWalls[0].built /\ moves = 1 /\ score = 0

(***************************************************************************)
(* The unattended game: a running game in which bounce the ball and        *)
(* restart are not pressed any more.  Frames keep arriving (display is     *)
(* called once per animation frame), the two remaining buttons may be      *)
(* pressed at any time.                                                    *)
(***************************************************************************)
NextUnattended ==
  \/ \E dt \in DtSet : DisplayCall(dt)
  \/ StartGame
  \/ MakeGameOver

\* the heights of MidY at which the unattended games start: those that are not
\* a whole number of falling steps above the bottom, so that the falling ball
\* passes the bottom by a margin that the rounding of y = y - 0.2 cannot change
UnattendedY == { 6700000, 500000, -13950000 }

\* the least frame time of DtSet
MinDt == CHOOSE d \in DtSet : \A e \in DtSet : d <= e

\* the weight of an arc frame: a falling step, more than the 0.165 an arc
\* frame can raise y by
ArcStep == FallDy

\* a running game is never lower than this: two falling steps below the bottom
RankFloor == bottom - 2 * FallDy

InitUnattended == InitMid /\ y \in UnattendedY

SpecUnattended ==
  /\ InitUnattended
  /\ [][NextUnattended]_vars
  /\ WF_vars(\E dt \in DtSet : DisplayCall(dt))

\* frames an arc in progress still needs at most, at the least dt
ArcLeft(b, angle) == IF b THEN 0 ELSE (ArcEnd - angle + MinDt - 1) \div MinDt

\* the measure of a running game: its height, plus ArcStep for every frame the
\* arc still needs (an arc frame raises y by less than ArcStep)
Rank(yy, b, angle) == yy + ArcStep * ArcLeft(b, angle)

\* C36: an unattended game that is started and not over ends: its measure is
\* bounded below and every frame either ends the game or lowers the measure
\* (the ball falls 0.2 per frame outside an arc, and an arc has finitely many
\* frames), so with frames arriving for ever game_over becomes true; a frame
\* of a finished game leaves game_over, the position and the score alone.
C36_UnattendedGameEnds ==
  /\ (game_started /\ ~game_over) =>
       /\ Rank(y, bounced, bounce_angle) >= RankFloor
       /\ \A dt \in DtSet :
            \A draw \in RandomDraws(count, DisplayResult(dt, count, 0).requested) :
              LET n == DisplayResult(dt, draw[1], draw[2])
              IN n.game_over \/
                 Rank(n.y, n.bounced, n.bounce_angle) < Rank(y, bounced, bounce_angle)
  /\ game_over =>
       \A dt \in DtSet :
         LET n == DisplayResult(dt, count, 0)
         IN n.game_over /\ n.x = x /\ n.y = y /\ n.score = score

C36_Witness ==
  /\ game_over /\ bounced /\ hit.bounds /\ hit.kind = "none"
  /\ y = bottom - 100000 /\ moves = 104

\* the steps one call can need at most: one per whole dt (50 ms) of the scaled
\* frame duration, and one more for the accumulator it started with
StepsBound(k, ms) ==
  LET mag == IF ms < 0 THEN -ms ELSE ms
      scaled5 == IF k = -1 THEN mag ELSE IF k = 0 THEN 5 * mag ELSE 25 * mag
  IN scaled5 \div 250 + 1

\* C37: every simulate call, whatever the sign of its frame duration and the
\* order of the calls, ends its catch-up loop after finitely many steps and
\* leaves |time_accumulator| < dt; a frame of duration zero runs no step.
C37_CatchUpTerminates ==
  [][\A ms \in FrameSet :
       (Simulate(ms) /\ MagLess(time_accumulator, sim_dt))
       => /\ MagLess(time_accumulator', sim_dt)
          /\ last_steps' >= 0
          /\ last_steps' <= StepsBound(time_scale, ms)
          /\ ms = 0 => last_steps' = 0]_vars

(***************************************************************************)
(* The example variant, src/examples/collisions-demo.js.  Its Inertia_Demo *)
(* has the same fields, the same generateWalls and the same display as     *)
(* the game above, with three differences: the resolver keeps no score,    *)
(* the chain of level 2 tests wall 3 right after wall 1, and there is no   *)
(* restart button.                                                         *)
(***************************************************************************)
\* index of the wall the example's if / else-if chain selects, -1 when none
ExampleFoundWall(walls, cnt, yy) ==
  IF InSpan(walls[0], yy) THEN 0
  ELSE IF InSpan(walls[1], yy) THEN 1
  ELSE IF cnt = 1 THEN (IF InSpan(walls[2], yy) THEN 2 ELSE -1)
  ELSE IF cnt = 2 THEN (IF InSpan(walls[3], yy) THEN 3 ELSE -1)
  ELSE -1

\* what the example's resolver does at position (xx, yy)
ExampleSideResolver(g, xx, yy, cnt, ball, rWalls, lWalls) ==
  LET side == IF RightContact(g, xx) THEN "right"
              ELSE IF LeftContact(g, xx) THEN "left" ELSE "none"
      walls == IF side = "right" THEN rWalls ELSE lWalls
      i == IF side = "none" THEN -1 ELSE ExampleFoundWall(walls, cnt, yy)
  IN [side |-> side, seg |-> i,
      kind |-> IF side = "none" THEN "none"
               ELSE IF i = -1 THEN "seam"
               ELSE IF SameColor(ball, walls[i]) THEN "match" ELSE "mismatch"]

\* the body of one link of the example's chain: flip and request a layout change, or end the game
ExampleApplyOutcome(kind, S) ==
  IF kind = "match"
    THEN [S EXCEPT !.goRight = ~S.goRight, !.changeDirection = TRUE]
  ELSE IF kind = "mismatch" THEN [S EXCEPT !.game_over = TRUE]
  ELSE S

ExampleDisplayResult(dt, lvl, index) ==
  LET bp == BouncePhase
      fp == FallPhase
      a == AdvancedAngle(dt)
      x1 == PrimaryX(dt)
      y1 == PrimaryY(dt)
      S0 == [goRight |-> goRight, changeDirection |-> changeDirection,
             game_over |-> game_over \/ OutOfBounds(y1)]
      r == IF bp \/ fp
             THEN ExampleSideResolver(goRight, x1, y1, count, ballcolor, rightWalls, leftWalls)
             ELSE NoContact
      S1 == ExampleApplyOutcome(r.kind, S0)
      x2 == IF fp THEN (IF S1.goRight THEN x + FallDx ELSE x - FallDx) ELSE x1
      y2 == IF bp THEN y1 + sinY2(a) ELSE IF fp THEN y - FallDy ELSE y
      arcEnds == bp /\ a >= ArcEnd
      L0 == [count |-> count, colors |-> colors, ballcolor |-> ballcolor,
             rightWalls |-> rightWalls, leftWalls |-> leftWalls]
      L1 == IF S1.changeDirection THEN Regenerate(L0, lvl, index) ELSE L0
      L2 == generateWalls(L1)
  IN [x |-> x2, y |-> y2,
      goRight |-> S1.goRight,
      game_over |-> S1.game_over,
      requested |-> S1.changeDirection,
      bounced |-> IF arcEnds THEN TRUE ELSE bounced,
      bounce_angle |-> IF bp THEN (IF arcEnds THEN 0 ELSE a) ELSE bounce_angle,
      count |-> L2.count, colors |-> L2.colors, ballcolor |-> L2.ballcolor,
      rightWalls |-> L2.rightWalls, leftWalls |-> L2.leftWalls,
      moved |-> bp \/ fp,
      hit |-> [side |-> r.side, seg |-> r.seg, kind |-> r.kind, bounds |-> OutOfBounds(y1)]]

\* a display call of the example, within the move budget
ExampleDisplay(dt) ==
  /\ (BouncePhase \/ FallPhase) => moves < MaxMoves
  /\ \E draw \in RandomDraws(count, ExampleDisplayResult(dt, count, 0).requested) :
       LET n == ExampleDisplayResult(dt, draw[1], draw[2])
       IN /\ x' = n.x
          /\ y' = n.y
          /\ goRight' = n.goRight
          /\ game_over' = n.game_over
          /\ bounced' = n.bounced
          /\ bounce_angle' = n.bounce_angle
          /\ count' = n.count
          /\ colors' = n.colors
          /\ ballcolor' = n.ballcolor
          /\ rightWalls' = n.rightWalls
          /\ leftWalls' = n.leftWalls
          /\ changeDirection' = FALSE
          /\ moves' = IF n.moved THEN moves + 1 ELSE moves
          /\ hit' = n.hit
          /\ UNCHANGED <<game_started, z, score, scoreElement>>
  /\ UNCHANGED simvars

\* a running game of the example: the states of InitMid, with the score the
\* example never changes
ExampleInit ==
  \E h \in MidHistories, gap \in MidGaps, ys \in MidY, ph \in MidPhases :
    \E index \in (IF h = << >> THEN {0} ELSE BallIndexes(h[Len(h)])) :
      LET L == LayoutAfter(h, index)
          right == Len(h) % 2 = 0
      IN /\ game_started = TRUE
         /\ game_over = FALSE
         /\ goRight = right
         /\ bounced = ph[1]
         /\ bounce_angle = ph[2]
         /\ score = 0
         /\ scoreElement = 0
         /\ x = IF right THEN rightbound - BallRadius - gap ELSE leftbound + BallRadius + gap
         /\ y = ys
         /\ z = StartZ
         /\ count = L.count
         /\ changeDirection = FALSE
         /\ colors = L.colors
         /\ ballcolor = L.ballcolor
         /\ rightWalls = L.rightWalls
         /\ leftWalls = L.leftWalls
         /\ moves = 0
         /\ hit = NoHit
         /\ SimInit

ExampleNext ==
  \/ \E dt \in DtSet : ExampleDisplay(dt)
  \/ StartGame
  \/ MakeGameOver
  \/ Bounce

SpecExample == ExampleInit /\ [][ExampleNext]_vars

\* C38: in the example variant, at level 2, a side contact at a height inside
\* the span of wall 2 of the side the ball faces is resolved against that
\* wall: a wall of the ball's colour reverses the direction, a wall of another
\* colour ends the game.
C38_ExampleChecksSegmentTwo ==
  [][\A dt \in DtSet :
       (/\ ExampleDisplay(dt)
        /\ BouncePhase \/ FallPhase
        /\ count = 2
        /\ SideContact(dt)
        /\ InSpan(FacingWalls[2], PrimaryY(dt)))
       => /\ hit'.seg = 2
          /\ IF SameColor(ballcolor, FacingWalls[2])
               THEN goRight' = ~goRight /\ game_over' = OutOfBounds(PrimaryY(dt))
               ELSE game_over' /\ goRight' = goRight]_vars
====
